---- MODULE Spec2Model ----
(***************************************************************************)
(* UGRID convention reader of uxarray (uxarray/io/_ugrid.py).              *)
(*                                                                         *)
(* A dataset is the ordered sequence of its variables.  A variable is a    *)
(* record                                                                  *)
(*   name   its current name in the dataset                                *)
(*   id     the name it had in the input (its identity; rename keeps it)   *)
(*   dims   the names of its dimensions, in order                          *)
(*   shape  the sizes of its dimensions, in order                          *)
(*   coord  TRUE when it is a coordinate, FALSE when it is a data variable *)
(*   attrs  its attributes, a function from the present keys to values     *)
(*   dtype  the element type of its array                                  *)
(*   data   the elements of its array, flattened                           *)
(* A string attribute that is split on whitespace is kept as the sequence  *)
(* of its tokens, the token " " being a run of whitespace.  A number is a  *)
(* record [kind, v]: kind "num" with value v, kind "nan" for the floating  *)
(* NaN, kind "none" for Python's None.                                     *)
(***************************************************************************)
EXTENDS Integers, Sequences, FiniteSets, TLC

VARIABLES ds, prev, ret, reads

vars == <<ds, prev, ret, reads>>

-----------------------------------------------------------------------------
(* Bounds of the model *)

\* node indices stored in a connectivity array are 0..MaxIndex
MaxIndex == 1
\* number of faces of the meshes that are normalised
NFaces == 2
\* maximum number of nodes per face
NMaxFaceNodes == 2
\* number of successful _read_ugrid calls in one behaviour
MaxReads == 2

-----------------------------------------------------------------------------
(* Numbers, None and NaN *)

Num(n) == [kind |-> "num", v |-> n]
NaN == [kind |-> "nan", v |-> 0]
None == [kind |-> "none", v |-> 0]

\* Python/numpy ==: NaN equals nothing, None equals only None
PyEq(a, b) ==
  \/ a.kind = "num" /\ b.kind = "num" /\ a.v = b.v
  \/ a.kind = "none" /\ b.kind = "none"

IsNan(a) == a.kind = "nan"

\* uxarray.constants
INT_DTYPE == "int64"
INT_FILL_VALUE == -128

-----------------------------------------------------------------------------
(* The dataset container (xarray.Dataset) as the reader uses it *)

EmptyDict == [k \in {} |-> ""]

\* d[k] = v on a Python dict
DictSet(d, k, v) == [x \in (DOMAIN d) \cup {k} |-> IF x = k THEN v ELSE d[x]]

\* the dict literal {k1: v1, k2: v2}: a repeated key keeps the last value
Dict2(k1, v1, k2, v2) == DictSet(DictSet(EmptyDict, k1, v1), k2, v2)

Lookup(d, k) == IF k \in DOMAIN d THEN d[k] ELSE k

\* key in ds
HasVar(d, n) == \E i \in DOMAIN d : d[i].name = n

HasDim(d, n) == \E i \in DOMAIN d : \E j \in DOMAIN d[i].dims : d[i].dims[j] = n

IndexOf(d, n) == CHOOSE i \in DOMAIN d : d[i].name = n

\* ds[n], for a name that is in ds
VarOf(d, n) == d[IndexOf(d, n)]

\* str.split(): the tokens that are not whitespace
Split(s) == SelectSeq(s, LAMBDA t : t # " ")

Ok(d) == [status |-> "ok", ds |-> d]
Err(e, d) == [status |-> e, ds |-> d]

\* Dataset.rename(name_dict): renames variables and dimensions alike; a key
\* that is neither is a ValueError, and so are two variables under one name
Rename(d, m) ==
  LET renamed == [i \in DOMAIN d |->
                    [d[i] EXCEPT !.name = Lookup(m, @),
                                 !.dims = [j \in DOMAIN @ |-> Lookup(m, @[j])]]]
  IN  IF \E k \in DOMAIN m : ~HasVar(d, k) /\ ~HasDim(d, k)
        THEN Err("ValueError", d)
      ELSE IF \E i, j \in DOMAIN d : i # j /\ renamed[i].name = renamed[j].name
        THEN Err("ValueError", d)
      ELSE Ok(renamed)

\* Dataset.set_coords(names)
SetCoords(d, names) ==
  IF \E n \in names : ~HasVar(d, n)
    THEN Err("ValueError", d)
    ELSE Ok([i \in DOMAIN d |->
               IF d[i].name \in names THEN [d[i] EXCEPT !.coord = TRUE] ELSE d[i]])

\* Dataset.filter_by_attrs: the variables, in order, whose attribute key is
\* present (and, for an exact match, equal to value)
RECURSIVE FilterByAttrs(_, _, _, _)
FilterByAttrs(d, key, exact, value) ==
  IF d = <<>> THEN <<>>
  ELSE LET v == Head(d)
           hit == /\ key \in DOMAIN v.attrs
                  /\ (exact => v.attrs[key] = value)
       IN  (IF hit THEN <<v>> ELSE <<>>) \o FilterByAttrs(Tail(d), key, exact, value)

\* the data variables of a dataset: len(ds), iter(ds) and ds.keys() of an
\* xarray.Dataset range over its data variables, not over its coordinates
DataVars(d) == SelectSeq(d, LAMBDA v : ~v.coord)

-----------------------------------------------------------------------------
(* _replace_fill_values (uxarray.grid.connectivity) *)

\* astype(new_dtype) of one element: exact on the whole numbers a
\* connectivity array holds; the dtype itself is the array's
AsType(e) == Num(e.v)

IsFillAt(e, original_fill) ==
  IF original_fill.kind # "none" /\ IsNan(original_fill)
    THEN IsNan(e)
    ELSE PyEq(e, original_fill)

_replace_fill_values(grid_var, original_fill, new_fill) ==
  [i \in DOMAIN grid_var |->
     IF IsFillAt(grid_var[i], original_fill) THEN Num(new_fill) ELSE AsType(grid_var[i])]

-----------------------------------------------------------------------------
(* _standardize_fill_values *)

\* original fill value, if one exists
original_fv(v) ==
  IF "_FillValue" \in DOMAIN v.attrs THEN v.attrs["_FillValue"]
  ELSE IF \E i \in DOMAIN v.data : IsNan(v.data[i]) THEN NaN
  ELSE None

\* the test with "and" for "or"
NotStandardizedBoth(v) ==
  v.dtype # INT_DTYPE /\ ~PyEq(original_fv(v), Num(INT_FILL_VALUE))

\* line 98: current dtype and fill value are not standardized
NotStandardized(v) == v.dtype # INT_DTYPE \/ ~PyEq(original_fv(v), Num(INT_FILL_VALUE))

\* the remap without line 110, the new _FillValue
StandardizeVarKeepsAttrs(v) ==
  IF NotStandardized(v)
    THEN [v EXCEPT !.data = _replace_fill_values(v.data, original_fv(v), INT_FILL_VALUE),
                   !.dtype = INT_DTYPE]
    ELSE v

\* line 98-110, on the connectivity variable
StandardizeVar(v) ==
  IF NotStandardized(v)
    THEN [v EXCEPT !.data = _replace_fill_values(v.data, original_fv(v), INT_FILL_VALUE),
                   !.dtype = INT_DTYPE,
                   !.attrs = DictSet(@, "_FillValue", Num(INT_FILL_VALUE))]
    ELSE v

_standardize_fill_values(d) ==
  IF ~HasVar(d, "face_node_connectivity")
    THEN Err("KeyError", d)
    ELSE Ok([d EXCEPT ![IndexOf(d, "face_node_connectivity")] = StandardizeVar(@)])

-----------------------------------------------------------------------------
(* _is_ugrid and _validate_minimum_ugrid *)

_is_ugrid(d) ==
  LET node_coords_dv == DataVars(FilterByAttrs(d, "node_coordinates", FALSE, ""))
      face_conn_dv   == DataVars(FilterByAttrs(d, "face_node_connectivity", FALSE, ""))
      topo_dim_dv    == DataVars(FilterByAttrs(d, "topology_dimension", FALSE, ""))
      mesh_topo_dv   == DataVars(FilterByAttrs(d, "cf_role", TRUE, "mesh_topology"))
  IN  /\ Len(mesh_topo_dv) # 0
      /\ Len(topo_dim_dv) # 0
      /\ Len(face_conn_dv) # 0
      /\ Len(node_coords_dv) # 0

_validate_minimum_ugrid(d) ==
  \/ (HasVar(d, "node_lon") /\ HasVar(d, "node_lat"))
  \/ (/\ HasVar(d, "node_x") /\ HasVar(d, "node_y") /\ HasVar(d, "node_z")
      /\ HasVar(d, "face_node_connectivity"))

-----------------------------------------------------------------------------
(* _read_ugrid *)

(* Each step takes the reader's progress r = [status, ds]: the dataset so far,
   or the exception an earlier line raised, which ends the call. *)

\* line 19-22: the first data variable with cf_role "mesh_topology" becomes Mesh2
RenameTopology(r) ==
  IF r.status # "ok" THEN r
  ELSE LET found == DataVars(FilterByAttrs(r.ds, "cf_role", TRUE, "mesh_topology"))
       IN  IF Len(found) = 0 THEN Err("IndexError", r.ds)
           ELSE Rename(r.ds, found[1].name :> "Mesh2")

\* line 25-29: map and rename coordinates
RenameCoordinates(r) ==
  IF r.status # "ok" THEN r
  ELSE IF ~HasVar(r.ds, "Mesh2") THEN Err("KeyError", r.ds)
  ELSE IF "node_coordinates" \notin DOMAIN VarOf(r.ds, "Mesh2").attrs
    THEN Err("AttributeError", r.ds)
  ELSE LET coord_names == Split(VarOf(r.ds, "Mesh2").attrs["node_coordinates"])
       IN  IF Len(coord_names) = 1
             THEN Rename(r.ds, coord_names[1] :> "node_lon")
           ELSE IF Len(coord_names) = 2
             THEN Rename(r.ds, Dict2(coord_names[1], "node_lon", coord_names[2], "node_lat"))
           ELSE r

\* line 31: coord_dim_name = xr_ds["node_lon"].dims
CoordDimName(d) == VarOf(d, "node_lon").dims

\* line 31-33: map and rename dimensions
RenameNodeDimension(r) ==
  IF r.status # "ok" THEN r
  ELSE IF ~HasVar(r.ds, "node_lon") THEN Err("KeyError", r.ds)
  ELSE IF Len(CoordDimName(r.ds)) = 0 THEN Err("IndexError", r.ds)
  ELSE Rename(r.ds, CoordDimName(r.ds)[1] :> "n_node")

\* line 35-38: the connectivity variable
RenameConnectivity(r) ==
  IF r.status # "ok" THEN r
  ELSE IF ~HasVar(r.ds, "Mesh2") THEN Err("KeyError", r.ds)
  ELSE IF "face_node_connectivity" \notin DOMAIN VarOf(r.ds, "Mesh2").attrs
    THEN Err("AttributeError", r.ds)
  ELSE LET face_node_names == Split(VarOf(r.ds, "Mesh2").attrs["face_node_connectivity"])
       IN  IF Len(face_node_names) = 0 THEN Err("IndexError", r.ds)
           ELSE IF ~HasVar(r.ds, face_node_names[1]) THEN Err("KeyError", r.ds)
           ELSE Rename(r.ds, face_node_names[1] :> "face_node_connectivity")

\* the two canonical dimension names exchanged
RenameFaceDimensionsExchanged(r) ==
  IF r.status # "ok" THEN r
  ELSE LET dims == VarOf(r.ds, "face_node_connectivity").dims
       IN  IF Len(dims) < 2 THEN Err("IndexError", r.ds)
           ELSE Rename(r.ds, Dict2(dims[1], "n_max_face_nodes", dims[2], "n_face"))

\* line 40-45: the connectivity variable's two dimensions
RenameFaceDimensions(r) ==
  IF r.status # "ok" THEN r
  ELSE LET dims == VarOf(r.ds, "face_node_connectivity").dims
       IN  IF Len(dims) < 2 THEN Err("IndexError", r.ds)
           ELSE Rename(r.ds, Dict2(dims[1], "n_face", dims[2], "n_max_face_nodes"))

\* line 47
MarkCoordinates(r) ==
  IF r.status # "ok" THEN r ELSE SetCoords(r.ds, {"node_lon", "node_lat"})

\* line 50: standardize fill values and data type for face nodes
StandardizeFaceNodes(r) ==
  IF r.status # "ok" THEN r ELSE _standardize_fill_values(r.ds)

\* line 52-55: populate source dimensions
SourceDims(coord_dim_name, d) ==
  LET dims == VarOf(d, "face_node_connectivity").dims
  IN  DictSet(DictSet(DictSet(EmptyDict, coord_dim_name[1], "n_node"),
                      dims[1], "n_face"),
              dims[2], "n_max_face_nodes")

\* line 57: the dataset and the dimension map, or the exception raised; the
\* dimension map takes coord_dim_name from the dataset as it was at line 31
Return(xr_ds, named, done) ==
  IF done.status # "ok"
    THEN [status |-> done.status, ds |-> xr_ds, dims |-> EmptyDict]
    ELSE [status |-> "ok", ds |-> done.ds,
          dims |-> SourceDims(CoordDimName(named.ds), done.ds)]

\* the whole reader: [status, ds, dims]; when an exception is raised nothing
\* is returned, and ds is the input
_read_ugrid(xr_ds) ==
  Return(xr_ds,
         RenameCoordinates(RenameTopology(Ok(xr_ds))),
         StandardizeFaceNodes(MarkCoordinates(RenameFaceDimensions(RenameConnectivity(
           RenameNodeDimension(RenameCoordinates(RenameTopology(Ok(xr_ds)))))))))

\* _encode_ugrid
_encode_ugrid(d) == d

-----------------------------------------------------------------------------
(* Input datasets *)

NoAttrs == [k \in {} |-> ""]

MkVar(name, dims, shape, coord, attrs, dtype, data) ==
  [name |-> name, id |-> name, dims |-> dims, shape |-> shape, coord |-> coord,
   attrs |-> attrs, dtype |-> dtype, data |-> data]

(* --- connectivity arrays: integer-valued, the padding marked by a declared
   _FillValue, by NaN (floating point only), or by nothing --- *)

Dtypes == {"int32", "int64", "float64"}

\* the declared _FillValue; None stands for no attribute
FillAttrs == {None, NaN, Num(-1), Num(INT_FILL_VALUE)}

FillAttrsOf(fv) == IF fv = None THEN NoAttrs ELSE ("_FillValue" :> fv)

\* the elements an array of the dtype with the declared fill value may hold:
\* whole numbers, and NaN where NaN is the padding of a floating-point array
Elements(dtype, fv) ==
  {Num(n) : n \in (0 .. MaxIndex) \cup {-1, INT_FILL_VALUE}}
    \cup (IF dtype = "float64" /\ fv \in {None, NaN} THEN {NaN} ELSE {})

ConnVar(name, dims, shape, dtype, fv, data) ==
  MkVar(name, dims, shape, FALSE, FillAttrsOf(fv), dtype, data)

\* every one-face connectivity array, alone in a dataset
ArrayDatasets ==
  UNION { UNION { { << ConnVar("face_node_connectivity", <<"n_face", "n_max_face_nodes">>,
                               <<1, NMaxFaceNodes>>, dtype, fv, data) >>
                    : data \in [1 .. NMaxFaceNodes -> Elements(dtype, fv)] }
                  : fv \in FillAttrs }
          : dtype \in Dtypes }

(* --- name-only datasets for the minimum-schema check --- *)

SchemaNames ==
  <<"node_lon", "node_lat", "node_x", "node_y", "node_z", "face_node_connectivity">>

NameDataset(present) ==
  LET names == SelectSeq(SchemaNames, LAMBDA n : n \in present)
  IN  [i \in DOMAIN names |->
         MkVar(names[i], <<"n">>, <<1>>, FALSE, NoAttrs, "float64", <<>>)]

NameDatasets ==
  { NameDataset(present) : present \in SUBSET {SchemaNames[i] : i \in DOMAIN SchemaNames} }

(* --- attribute-only datasets for the UGRID check: two variables, a and b,
   each carrying any of the four markers; b a data variable or a coordinate --- *)

Marker(key, value, present) == IF present THEN (key :> value) ELSE NoAttrs

MarkerAttrs(role, nc, fnc, td) ==
  (IF role = "" THEN NoAttrs ELSE ("cf_role" :> role))
    @@ Marker("node_coordinates", <<"x", " ", "y">>, nc)
    @@ Marker("face_node_connectivity", <<"fnc">>, fnc)
    @@ Marker("topology_dimension", 2, td)

MarkerSets(roles) ==
  { MarkerAttrs(role, nc, fnc, td) :
      role \in roles, nc \in BOOLEAN, fnc \in BOOLEAN, td \in BOOLEAN }

AttrDatasets ==
  { << MkVar("a", <<>>, <<>>, FALSE, aa, "int32", <<>>),
       MkVar("b", <<>>, <<>>, bc, ba, "int32", <<>>) >>
    : aa \in MarkerSets({"", "mesh_topology", "face_node_connectivity"}),
      ba \in MarkerSets({"", "mesh_topology"}),
      bc \in BOOLEAN }

(* --- meshes: a topology variable, its node coordinates on one node
   dimension and its face-node connectivity, under the names of a source
   file or under the canonical names --- *)

CoordStyles == {"source", "canonical", "swapped"}
RestStyles == {"source", "canonical"}
TopoRoles == {"data", "coord", "none"}
\* how many names node_coordinates lists; -1 stands for no attribute
CoordCounts == {-1, 0, 1, 2, 3}

FirstCoord(style) ==
  CASE style = "source" -> "x" [] style = "canonical" -> "node_lon" [] OTHER -> "node_lat"

SecondCoord(style) ==
  CASE style = "source" -> "y" [] style = "canonical" -> "node_lat" [] OTHER -> "node_lon"

NodeCoordinatesAttr(style, count) ==
  CASE count = -1 -> NoAttrs
    [] count = 0 -> ("node_coordinates" :> <<" ">>)
    [] count = 1 -> ("node_coordinates" :> <<FirstCoord(style)>>)
    [] count = 2 -> ("node_coordinates" :> <<FirstCoord(style), " ", SecondCoord(style)>>)
    [] OTHER -> ("node_coordinates" :>
                   <<FirstCoord(style), " ", SecondCoord(style), " ", "z">>)

MeshPad(fv) == IF fv = None THEN NaN ELSE fv

\* a connectivity array whose last slot is padding
MeshData(n, fv) ==
  [i \in 1 .. n |-> IF i = n THEN MeshPad(fv) ELSE Num((i - 1) % (MaxIndex + 1))]

MeshArrays ==
  { [dtype |-> "int32", fv |-> Num(-1)],
    [dtype |-> "float64", fv |-> None],
    [dtype |-> "int64", fv |-> Num(INT_FILL_VALUE)] }

MeshDataset(cstyle, count, hasSecond, rest, role, fncAttr, rank, arr) ==
  LET src      == rest = "source"
      nodeDim  == IF src THEN "nNodes" ELSE "n_node"
      connName == IF src THEN "fnc" ELSE "face_node_connectivity"
      connDims == IF src THEN <<"nFaces", "nMaxNodes">>
                         ELSE <<"n_face", "n_max_face_nodes">>
      topo == MkVar(IF src THEN "Mesh2d" ELSE "Mesh2", <<>>, <<>>, role = "coord",
                    (IF role = "none" THEN NoAttrs ELSE ("cf_role" :> "mesh_topology"))
                      @@ NodeCoordinatesAttr(cstyle, count)
                      @@ Marker("face_node_connectivity", <<connName>>, fncAttr)
                      @@ ("topology_dimension" :> 2),
                    "int32", <<>>)
      lon == MkVar(FirstCoord(cstyle), <<nodeDim>>, <<MaxIndex + 1>>, FALSE,
                   NoAttrs, "float64", <<>>)
      lat == MkVar(SecondCoord(cstyle), <<nodeDim>>, <<MaxIndex + 1>>, FALSE,
                   NoAttrs, "float64", <<>>)
      conn == IF rank = 2
                THEN ConnVar(connName, connDims, <<NFaces, NMaxFaceNodes>>, arr.dtype,
                             arr.fv, MeshData(NFaces * NMaxFaceNodes, arr.fv))
                ELSE ConnVar(connName, <<connDims[1]>>, <<NFaces>>, arr.dtype,
                             arr.fv, MeshData(NFaces, arr.fv))
  IN  <<topo, lon>> \o (IF hasSecond THEN <<lat>> ELSE <<>>) \o <<conn>>

MeshDatasets ==
  { MeshDataset(cstyle, count, hasSecond, rest, role, fncAttr, rank, arr) :
      cstyle \in CoordStyles, count \in CoordCounts, hasSecond \in BOOLEAN,
      rest \in RestStyles, role \in TopoRoles, fncAttr \in BOOLEAN,
      rank \in {1, 2}, arr \in MeshArrays }

InputDatasets == ArrayDatasets \cup NameDatasets \cup AttrDatasets \cup MeshDatasets

-----------------------------------------------------------------------------
(* The calls *)

NoRet == [op |-> "none", status |-> "ok", dims |-> EmptyDict, flag |-> FALSE]

Init ==
  /\ ds \in InputDatasets
  /\ prev = ds
  /\ ret = NoRet
  /\ reads = 0

\* xr_ds, source_dims_dict = _read_ugrid(xr_ds)
CallReadUgrid ==
  /\ reads < MaxReads
  /\ LET r == _read_ugrid(ds)
     IN  /\ ds' = r.ds
         /\ ret' = [op |-> "read", status |-> r.status, dims |-> r.dims, flag |-> FALSE]
         /\ reads' = IF r.status = "ok" THEN reads + 1 ELSE reads
  /\ prev' = ds

\* ds = _standardize_fill_values(ds)
CallStandardizeFillValues ==
  /\ LET r == _standardize_fill_values(ds)
     IN  /\ ds' = r.ds
         /\ ret' = [op |-> "standardize", status |-> r.status, dims |-> EmptyDict,
                    flag |-> FALSE]
  /\ prev' = ds
  /\ UNCHANGED reads

\* _is_ugrid(ds)
CallIsUgrid ==
  /\ ret' = [op |-> "is_ugrid", status |-> "ok", dims |-> EmptyDict, flag |-> _is_ugrid(ds)]
  /\ prev' = ds
  /\ UNCHANGED <<ds, reads>>

\* _validate_minimum_ugrid(grid_ds)
CallValidateMinimumUgrid ==
  /\ ret' = [op |-> "validate", status |-> "ok", dims |-> EmptyDict,
             flag |-> _validate_minimum_ugrid(ds)]
  /\ prev' = ds
  /\ UNCHANGED <<ds, reads>>

\* ds = _encode_ugrid(ds)
CallEncodeUgrid ==
  /\ ds' = _encode_ugrid(ds)
  /\ ret' = [op |-> "encode", status |-> "ok", dims |-> EmptyDict, flag |-> FALSE]
  /\ prev' = ds
  /\ UNCHANGED reads

Next ==
  \/ CallReadUgrid
  \/ CallStandardizeFillValues
  \/ CallIsUgrid
  \/ CallValidateMinimumUgrid
  \/ CallEncodeUgrid

Spec == Init /\ [][Next]_vars

-----------------------------------------------------------------------------
(* Vocabulary of the properties *)

Returned(op) == ret.op = op /\ ret.status = "ok"

HasAttr(d, key) == \E i \in DOMAIN d : key \in DOMAIN d[i].attrs

HasRole(d, role) ==
  \E i \in DOMAIN d : "cf_role" \in DOMAIN d[i].attrs /\ d[i].attrs["cf_role"] = role

\* the variable of d that carries the identity id
ById(d, id) == d[CHOOSE i \in DOMAIN d : d[i].id = id]

\* the variable of the call's argument that the result calls n
Source(n) == ById(prev, VarOf(ds, n).id)

\* the topology variable of the call's argument
Topology(d) == DataVars(FilterByAttrs(d, "cf_role", TRUE, "mesh_topology"))[1]

HasTopology(d) == Len(DataVars(FilterByAttrs(d, "cf_role", TRUE, "mesh_topology"))) > 0

\* the number of names the topology variable's node_coordinates lists
DeclaredCoords(d) == Len(Split(Topology(d).attrs["node_coordinates"]))

DeclaresCoords(d) == HasTopology(d) /\ "node_coordinates" \in DOMAIN Topology(d).attrs

NameSeq(d) == [i \in DOMAIN d |-> d[i].name]
DimSeq(d) == [i \in DOMAIN d |-> d[i].dims]

-----------------------------------------------------------------------------
(* C1: _validate_minimum_ugrid returns true exactly when (node_lon and
   node_lat are present, or node_x, node_y and node_z are present) and
   face_node_connectivity is present. *)
C1_MinimumSchema ==
  ret.op = "validate" =>
    ret.flag = (/\ \/ HasVar(prev, "node_lon") /\ HasVar(prev, "node_lat")
                   \/ HasVar(prev, "node_x") /\ HasVar(prev, "node_y")
                        /\ HasVar(prev, "node_z")
                /\ HasVar(prev, "face_node_connectivity"))

(* C2: the dimension map returned by a successful _read_ugrid maps the
   original node dimension to n_node and the original first and second
   dimension of the connectivity variable to n_face and n_max_face_nodes. *)
C2_OriginalDimensionKeys ==
  Returned("read") =>
    ret.dims = DictSet(DictSet(DictSet(EmptyDict,
                   Source("node_lon").dims[1], "n_node"),
                   Source("face_node_connectivity").dims[1], "n_face"),
                   Source("face_node_connectivity").dims[2], "n_max_face_nodes")

(* C3: after a successful _read_ugrid of a dataset whose topology variable
   declares two node coordinates and whose connectivity has shape (F, M), the
   result holds Mesh2, node_lon, node_lat and face_node_connectivity; node_lon
   and node_lat are coordinates on n_node; face_node_connectivity has the
   dimensions (n_face, n_max_face_nodes) and its shape (F, M). *)
C3_RoundTrip ==
  (Returned("read") /\ DeclaresCoords(prev) /\ DeclaredCoords(prev) = 2) =>
    /\ \A n \in {"Mesh2", "node_lon", "node_lat", "face_node_connectivity"} : HasVar(ds, n)
    /\ \A n \in {"node_lon", "node_lat"} :
         VarOf(ds, n).coord /\ VarOf(ds, n).dims = <<"n_node">>
    /\ VarOf(ds, "face_node_connectivity").dims = <<"n_face", "n_max_face_nodes">>
    /\ VarOf(ds, "face_node_connectivity").shape = Source("face_node_connectivity").shape
    /\ Len(VarOf(ds, "face_node_connectivity").shape) = 2

C3_Witness ==
  /\ Returned("read") /\ DeclaresCoords(prev) /\ DeclaredCoords(prev) = 2
  /\ Source("node_lon").name = "x" /\ Source("node_lat").name = "y"
  /\ Source("face_node_connectivity").dims = <<"nFaces", "nMaxNodes">>
  /\ VarOf(ds, "face_node_connectivity").shape = <<NFaces, NMaxFaceNodes>>

\* the sentinel of a connectivity array as the property describes it
Sentinel(v) ==
  IF "_FillValue" \in DOMAIN v.attrs THEN v.attrs["_FillValue"]
  ELSE IF \E i \in DOMAIN v.data : v.data[i].kind = "nan" THEN NaN
  ELSE None

IsSentinel(e, s) ==
  \/ s.kind = "nan" /\ e.kind = "nan"
  \/ s.kind = "num" /\ e.kind = "num" /\ e.v = s.v

Standardized == Returned("standardize") \/ Returned("read")

(* C4: at every position of the connectivity array, an element that was the
   detected sentinel equals INT_FILL_VALUE after _standardize_fill_values, and
   any other element keeps its numeric value. *)
C4_FillValues ==
  Standardized =>
    LET before == Source("face_node_connectivity")
        after  == VarOf(ds, "face_node_connectivity")
    IN  /\ DOMAIN after.data = DOMAIN before.data
        /\ \A i \in DOMAIN before.data :
             IF IsSentinel(before.data[i], Sentinel(before))
               THEN after.data[i] = Num(INT_FILL_VALUE)
               ELSE after.data[i].kind = "num" /\ before.data[i].kind = "num"
                      /\ after.data[i].v = before.data[i].v

C4_Witness ==
  /\ Returned("standardize")
  /\ Source("face_node_connectivity").dtype = "float64"
  /\ Sentinel(Source("face_node_connectivity")) = NaN
  /\ \E i, j \in DOMAIN prev[1].data :
       /\ prev[1].data[i] = NaN /\ ds[1].data[i] = Num(INT_FILL_VALUE)
       /\ prev[1].data[j] = Num(MaxIndex) /\ ds[1].data[j] = Num(MaxIndex)

(* C5: with no variable of cf_role "mesh_topology" in the input, _read_ugrid
   signals TopologyNotFound and returns no dataset. *)
C5_TopologyNotFound ==
  (ret.op = "read" /\ ~HasRole(prev, "mesh_topology")) => ret.status = "TopologyNotFound"

(* C6: when node_coordinates lists a number of names other than 1 or 2,
   _read_ugrid fails with MalformedCoordinateReference and returns no
   dataset, also when the input already holds a variable node_lon. *)
C6_MalformedCoordinateReference ==
  (ret.op = "read" /\ DeclaresCoords(prev) /\ DeclaredCoords(prev) \notin {1, 2}) =>
    ret.status = "MalformedCoordinateReference"

(* C7: _is_ugrid returns true exactly when some variable has cf_role
   "mesh_topology", some variable has topology_dimension, some variable has
   face_node_connectivity and some variable has node_coordinates. *)
C7_LooksLikeUgrid ==
  ret.op = "is_ugrid" =>
    ret.flag = (/\ HasRole(prev, "mesh_topology")
                /\ HasAttr(prev, "topology_dimension")
                /\ HasAttr(prev, "face_node_connectivity")
                /\ HasAttr(prev, "node_coordinates"))

(* C8: a successful _read_ugrid of the result of a successful _read_ugrid
   changes no variable or dimension name, and every canonical name designates
   the variable it designated before. *)
C8_Idempotent ==
  (Returned("read") /\ reads >= 2) =>
    /\ NameSeq(ds) = NameSeq(prev)
    /\ DimSeq(ds) = DimSeq(prev)
    /\ \A n \in {"Mesh2", "node_lon", "node_lat", "face_node_connectivity"} :
         HasVar(ds, n) => Source(n).name = n

\* what _read_ugrid needs besides the node coordinates: the connectivity
\* reference names a variable of two dimensions
ConnectivityResolves(d) ==
  /\ "face_node_connectivity" \in DOMAIN Topology(d).attrs
  /\ LET names == Split(Topology(d).attrs["face_node_connectivity"])
     IN  /\ Len(names) > 0
         /\ HasVar(d, names[1])
         /\ Len(VarOf(d, names[1]).dims) = 2

(* C9: when node_coordinates names exactly one variable and the dataset has
   no variable node_lat, _read_ugrid completes: the variable becomes node_lon
   on n_node and marking the coordinates raises no error. *)
C9_SingleCoordinate ==
  (/\ ret.op = "read" /\ DeclaresCoords(prev) /\ DeclaredCoords(prev) = 1
   /\ HasVar(prev, Split(Topology(prev).attrs["node_coordinates"])[1])
   /\ ~HasVar(prev, "node_lat")
   /\ ConnectivityResolves(prev)) =>
    /\ ret.status = "ok"
    /\ Source("node_lon").name = Split(Topology(prev).attrs["node_coordinates"])[1]
    /\ VarOf(ds, "node_lon").dims = <<"n_node">>

(* C10: _standardize_fill_values leaves values, dtype and attributes of the
   connectivity array unchanged exactly when the dtype is INT_DTYPE and the
   detected sentinel is INT_FILL_VALUE; after any call the dtype is INT_DTYPE
   and _FillValue is INT_FILL_VALUE, and a second call changes nothing. *)
C10_Standardized ==
  Returned("standardize") =>
    LET before == Source("face_node_connectivity")
        after  == VarOf(ds, "face_node_connectivity")
    IN  /\ (after.data = before.data /\ after.dtype = before.dtype
              /\ after.attrs = before.attrs)
          <=> (before.dtype = INT_DTYPE /\ Sentinel(before) = Num(INT_FILL_VALUE))
        /\ after.dtype = INT_DTYPE
        /\ "_FillValue" \in DOMAIN after.attrs
        /\ after.attrs["_FillValue"] = Num(INT_FILL_VALUE)
        /\ _standardize_fill_values(ds) = Ok(ds)

C10_Witness ==
  /\ Returned("standardize")
  /\ Source("face_node_connectivity").dtype = INT_DTYPE
  /\ Sentinel(Source("face_node_connectivity")) = None
  /\ "_FillValue" \in DOMAIN VarOf(ds, "face_node_connectivity").attrs
  /\ VarOf(ds, "face_node_connectivity").data = Source("face_node_connectivity").data

====
